---- MODULE Spec2Model ----
(***************************************************************************)
(* Model of pptx-organizer: taxonomy extraction (main.py / app.py), deck    *)
(* segmentation, oracle matching and slide reordering (process_pptx).       *)
(*                                                                          *)
(* Text is a sequence of one-character strings, so that strip(), split(),   *)
(* slicing, the regular expressions and the f-string formatting of the      *)
(* source are computed and not assumed.                                     *)
(***************************************************************************)
EXTENDS Integers, Sequences, FiniteSets, TLC

\* ------------------------------------------------------------------ bounds
\* longest deck that is opened
MaxSlides == 4
\* greatest category number the oracle and the documents mention
MaxNo == 2
\* number of tables read by one tabular extraction
MaxTables == 2
\* number of rows of one tabular document
MaxDocRows == 3
\* number of two-row tables of one document read table by table
MaxPoolTables == 2
\* number of shapes of a table-of-contents slide
MaxTocShapes == 2

\* --------------------------------------------------------- program constants
\* main.py:545 / app.py:302
FIXED_SLIDES == 2
\* main.py:142  sub_item = ...[:100]
SUB_ITEM_MAX == 100
\* main.py:331/584  first_text[:50]
TITLE_SNIPPET_MAX == 50

\* ------------------------------------------------------------------- text
Digits == <<"0", "1", "2", "3", "4", "5", "6", "7", "8", "9">>

IsDigit(c) == \E i \in 1..10 : Digits[i] = c

DigitVal(c) == (CHOOSE i \in 1..10 : Digits[i] = c) - 1

\* str.strip() removes these at both ends
Whitespace == {" ", "\n", "\t"}

RECURSIVE lstrip(_)
lstrip(s) ==
    IF s # <<>> /\ Head(s) \in Whitespace THEN lstrip(Tail(s)) ELSE s

RECURSIVE rstrip(_)
rstrip(s) ==
    IF s # <<>> /\ s[Len(s)] \in Whitespace
    THEN rstrip(SubSeq(s, 1, Len(s) - 1))
    ELSE s

strip(s) == rstrip(lstrip(s))

\* s[:n]
Slice(s, n) == SubSeq(s, 1, IF Len(s) < n THEN Len(s) ELSE n)

\* s.split('\n')[0]
FirstLine(s) ==
    LET breaks == {i \in 1..Len(s) : s[i] = "\n"}
    IN  IF breaks = {} THEN s
        ELSE SubSeq(s, 1, (CHOOSE i \in breaks : \A j \in breaks : i <= j) - 1)

\* the text matched by re.match(r'^(\d+)', s): the longest prefix of digits
RECURSIVE LeadingDigits(_)
LeadingDigits(s) ==
    IF s # <<>> /\ IsDigit(Head(s))
    THEN <<Head(s)>> \o LeadingDigits(Tail(s))
    ELSE <<>>

\* re.match(r'^\d+$', s) on a stripped s
AllDigits(s) == s # <<>> /\ \A i \in 1..Len(s) : IsDigit(s[i])

\* int(ds) of a non-empty digit string
RECURSIVE ToInt(_)
ToInt(ds) ==
    IF ds = <<>> THEN 0
    ELSE 10 * ToInt(SubSeq(ds, 1, Len(ds) - 1)) + DigitVal(ds[Len(ds)])

\* str(n) / f"{n}" of a natural number
RECURSIVE IntToStr(_)
IntToStr(n) ==
    IF n < 10 THEN <<Digits[n + 1]>>
    ELSE IntToStr(n \div 10) \o <<Digits[(n % 10) + 1]>>

\* ------------------------------------------------------------ table cells
\* a cell is None or a text; an optional value is a sequence of length <= 1
None == <<>>
Some(x) == <<x>>

\* str(cell).strip() if cell else ""
CellText(cell) ==
    IF cell = None \/ cell[1] = <<>> THEN <<>> ELSE strip(cell[1])

\* ---------------------------------------------------------------- lists
SeqsUpTo(S, n) == UNION {[1..k -> S] : k \in 0..n}

RECURSIVE RowCount(_)
RowCount(tables) ==
    IF tables = <<>> THEN 0 ELSE Len(Head(tables)) + RowCount(Tail(tables))

RECURSIVE Flatten(_)
Flatten(ss) == IF ss = <<>> THEN <<>> ELSE Head(ss) \o Flatten(Tail(ss))

\* ---------------------------------------------------- tabular extraction
\* main.py extract_categories_from_pdf: the loop state is the list of
\* flushed categories and the open category (None or one record)
ExInit == [categories |-> <<>>, current |-> None]

IsMainRow(row) ==
    LET col0 == CellText(row[1])
        col1 == CellText(row[2])
    IN  col0 # <<>> /\ IsDigit(col0[1]) /\ col1 # <<>>

\* lines 115-132: a main-item row flushes the open category and opens a new one
AfterMain(st, row) ==
    IF IsMainRow(row)
    THEN [categories |-> IF st.current # None
                         THEN Append(st.categories, st.current[1])
                         ELSE st.categories,
          current |-> Some([No |-> ToInt(LeadingDigits(CellText(row[1]))),
                            MainCategory |-> strip(FirstLine(CellText(row[2]))),
                            SubItems |-> <<>>])]
    ELSE st

InSeq(x, s) == \E i \in 1..Len(s) : s[i] = x

\* a reading of the sub-item columns one cell to the left: the number in the
\* second cell, the text in the third
AfterSubSecondThird(st, row) ==
    IF Len(row) >= 3 /\ st.current # None
    THEN LET col2 == CellText(row[2])
             col3 == CellText(row[3])
             sub_item == Slice(strip(FirstLine(col3)), SUB_ITEM_MAX)
             cur == st.current[1]
         IN  IF AllDigits(col2) /\ col3 # <<>>
                /\ sub_item # <<>> /\ ~InSeq(sub_item, cur.SubItems)
             THEN [st EXCEPT !.current =
                      Some([cur EXCEPT !.SubItems = Append(@, sub_item)])]
             ELSE st
    ELSE st

\* a sub-item appended without looking for an equal one
AfterSubKeepsDuplicates(st, row) ==
    IF Len(row) >= 4 /\ st.current # None
    THEN LET col2 == CellText(row[3])
             col3 == CellText(row[4])
             sub_item == Slice(strip(FirstLine(col3)), SUB_ITEM_MAX)
             cur == st.current[1]
         IN  IF AllDigits(col2) /\ col3 # <<>> /\ sub_item # <<>>
             THEN [st EXCEPT !.current =
                      Some([cur EXCEPT !.SubItems = Append(@, sub_item)])]
             ELSE st
    ELSE st

\* lines 134-144: a row of four or more cells adds a sub-item to the open category
AfterSub(st, row) ==
    IF Len(row) >= 4 /\ st.current # None
    THEN LET col2 == CellText(row[3])
             col3 == CellText(row[4])
             sub_item == Slice(strip(FirstLine(col3)), SUB_ITEM_MAX)
             cur == st.current[1]
         IN  IF AllDigits(col2) /\ col3 # <<>>
                /\ sub_item # <<>> /\ ~InSeq(sub_item, cur.SubItems)
             THEN [st EXCEPT !.current =
                      Some([cur EXCEPT !.SubItems = Append(@, sub_item)])]
             ELSE st
    ELSE st

\* lines 107-144: one row; rows of fewer than two cells are skipped
ProcessRow(st, row) ==
    IF Len(row) < 2 THEN st ELSE AfterSub(AfterMain(st, row), row)

RECURSIVE ProcessRows(_, _)
ProcessRows(st, rows) ==
    IF rows = <<>> THEN st
    ELSE ProcessRows(ProcessRow(st, Head(rows)), Tail(rows))

\* lines 103-144: tables of fewer than two rows are skipped
ProcessTable(st, table) ==
    IF Len(table) < 2 THEN st ELSE ProcessRows(st, table)

\* lines 146-149: at the end of a page the open category is saved, unless an
\* equal category is already in the list (then it stays open)
EndOfPage(st) ==
    IF st.current # None /\ ~InSeq(st.current[1], st.categories)
    THEN [categories |-> Append(st.categories, st.current[1]), current |-> None]
    ELSE st

\* the last occurrence of each No kept
RECURSIVE UniqueByNoLastWins(_, _)
UniqueByNoLastWins(cats, seen_nos) ==
    IF cats = <<>> THEN <<>>
    ELSE IF \E i \in 2..Len(cats) : cats[i].No = Head(cats).No
         THEN UniqueByNoLastWins(Tail(cats), seen_nos)
         ELSE <<Head(cats)>> \o UniqueByNoLastWins(Tail(cats), seen_nos)

\* lines 156-161: first occurrence of each No wins
RECURSIVE UniqueByNo(_, _)
UniqueByNo(cats, seen_nos) ==
    IF cats = <<>> THEN <<>>
    ELSE IF Head(cats).No \in seen_nos
         THEN UniqueByNo(Tail(cats), seen_nos)
         ELSE <<Head(cats)>> \o UniqueByNo(Tail(cats), seen_nos \cup {Head(cats).No})

\* list.sort(key=lambda x: x['No']): stable, ascending
RECURSIVE InsertByNo(_, _)
InsertByNo(sorted, cat) ==
    IF sorted = <<>> THEN <<cat>>
    ELSE IF sorted[Len(sorted)].No <= cat.No
         THEN Append(sorted, cat)
         ELSE Append(InsertByNo(SubSeq(sorted, 1, Len(sorted) - 1), cat),
                     sorted[Len(sorted)])

RECURSIVE SortByNo(_)
SortByNo(cats) ==
    IF cats = <<>> THEN <<>>
    ELSE InsertByNo(SortByNo(SubSeq(cats, 1, Len(cats) - 1)), cats[Len(cats)])

\* lines 155-171
FinishPdf(st) == SortByNo(UniqueByNo(st.categories, {}))

\* main.py extract_categories_from_excel lines 185-197 (app.py 111-123,
\* 137-148 are the same loop): the first row of each No is kept
RECURSIVE ExcelRows(_, _)
ExcelRows(categories, rows) ==
    IF rows = <<>> THEN categories
    ELSE LET row == Head(rows)
             no == ToInt(LeadingDigits(CellText(row[1])))
             cat == [No |-> no, Category |-> strip(FirstLine(CellText(row[2])))]
         IN  IF Len(row) >= 2 /\ IsMainRow(row)
                /\ ~\E i \in 1..Len(categories) : categories[i].No = no
             THEN ExcelRows(Append(categories, cat), Tail(rows))
             ELSE ExcelRows(categories, Tail(rows))

\* main.py extract_categories_from_excel
extract_categories_from_excel(rows) == SortByNo(ExcelRows(<<>>, rows))

\* The extraction oracle's answer after json.loads: malformed (ok = FALSE) or
\* a list of objects, each with a Category and, unless the oracle left it
\* out, a No.
\* main.py extract_categories_with_ai lines 242-257: sorted by No, nothing
\* else; any exception (malformed text, a missing No) gives []
extract_categories_with_ai(resp) ==
    IF resp.ok /\ \A i \in 1..Len(resp.items) : "No" \in DOMAIN resp.items[i]
    THEN SortByNo(resp.items)
    ELSE <<>>

\* =========================================================== the pipeline
\* app.py extract_categories_from_pdf lines 105-126: the rows of every table
\* of two or more rows, first row of each No kept, sorted
RECURSIVE TableRows(_)
TableRows(tables) ==
    IF tables = <<>> THEN <<>>
    ELSE (IF Len(Head(tables)) < 2 THEN <<>> ELSE Head(tables))
            \o TableRows(Tail(tables))

app_extract_categories_from_pdf(pages) ==
    SortByNo(ExcelRows(<<>>, TableRows(Flatten(pages))))

\* app.py extract_categories_with_ai lines 188-198: no try/except, so a
\* malformed answer raises
app_extract_categories_with_ai(resp) ==
    IF resp.ok /\ \A i \in 1..Len(resp.items) : "No" \in DOMAIN resp.items[i]
    THEN [raised |-> FALSE, categories |-> SortByNo(resp.items)]
    ELSE [raised |-> TRUE, categories |-> <<>>]

RECURSIVE PdfPages(_, _)
\* main.py lines 99-149 over whole pages
PdfPages(st, pages) ==
    IF pages = <<>> THEN st
    ELSE LET RECURSIVE Tables(_, _)
             Tables(t, tables) ==
                 IF tables = <<>> THEN t
                 ELSE Tables(ProcessTable(t, Head(tables)), Tail(tables))
         IN  PdfPages(EndOfPage(Tables(st, Head(pages))), Tail(pages))

\* main.py extract_categories_from_pdf
extract_categories_from_pdf(pages) == FinishPdf(PdfPages(ExInit, pages))

\* ---------------------------------------------------------------- the deck
\* A slide: ph = it has a title placeholder (slide.shapes.title), title = the
\* placeholder's text, body = the first non-empty text of its other shapes.
\* main.py get_slide_title lines 279-283
get_slide_title(slide) == IF slide.ph THEN strip(slide.title) ELSE <<>>

\* main.py get_slide_first_text lines 286-293: the title shape comes first
get_slide_first_text(slide) ==
    IF slide.ph /\ strip(slide.title) # <<>> THEN strip(slide.title)
    ELSE strip(slide.body)

UntitledPrefix == <<"[", "U", "n", "t", "i", "t", "l", "e", "d", " ">>

\* main.py lines 582-588: the group opened by an untitled slide
PlaceholderTitle(slide, idx) ==
    LET first_text == get_slide_first_text(slide)
    IN  IF first_text # <<>> THEN Slice(first_text, TITLE_SNIPPET_MAX)
        ELSE UntitledPrefix \o IntToStr(idx) \o <<"]">>

\* a scan that forgets the untitled slides that follow a titled one
SegmentStepDropsUntitled(seg, slides, idx) ==
    LET slide == slides[idx + 1]
        title == get_slide_title(slide)
    IN  IF title # <<>>
        THEN [groups |-> IF seg.current_group # None
                         THEN Append(seg.groups, seg.current_group[1])
                         ELSE seg.groups,
              current_group |->
                  Some([title |-> title, slides |-> <<idx>>, first_index |-> idx])]
        ELSE IF seg.current_group # None
             THEN seg
             ELSE [seg EXCEPT !.current_group =
                      Some([title |-> PlaceholderTitle(slide, idx),
                            slides |-> <<idx>>, first_index |-> idx])]

\* a scan in which every untitled slide opens a group of its own
SegmentStepSplitsUntitled(seg, slides, idx) ==
    LET slide == slides[idx + 1]
        title == get_slide_title(slide)
    IN  [groups |-> IF seg.current_group # None
                    THEN Append(seg.groups, seg.current_group[1])
                    ELSE seg.groups,
         current_group |->
             Some([title |-> IF title # <<>> THEN title
                             ELSE PlaceholderTitle(slide, idx),
                   slides |-> <<idx>>, first_index |-> idx])]

\* main.py lines 562-588 (app.py 319-335): one slide of the scan; slide
\* indices are 0-based, slides[idx + 1] is slide idx
SegmentStep(seg, slides, idx) ==
    LET slide == slides[idx + 1]
        title == get_slide_title(slide)
    IN  IF title # <<>>
        THEN [groups |-> IF seg.current_group # None
                         THEN Append(seg.groups, seg.current_group[1])
                         ELSE seg.groups,
              current_group |->
                  Some([title |-> title, slides |-> <<idx>>, first_index |-> idx])]
        ELSE IF seg.current_group # None
             THEN [seg EXCEPT !.current_group =
                      Some([@[1] EXCEPT !.slides = Append(@, idx)])]
             ELSE [seg EXCEPT !.current_group =
                      Some([title |-> PlaceholderTitle(slide, idx),
                            slides |-> <<idx>>, first_index |-> idx])]

RECURSIVE SegmentFrom(_, _, _)
SegmentFrom(seg, slides, idx) ==
    IF idx >= Len(slides) THEN seg
    ELSE SegmentFrom(SegmentStep(seg, slides, idx), slides, idx + 1)

\* main.py lines 559-591 (app.py 316-338)
SegmentDeck(slides) ==
    LET seg == SegmentFrom([groups |-> <<>>, current_group |-> None],
                           slides, FIXED_SLIDES)
    IN  IF seg.current_group # None
        THEN Append(seg.groups, seg.current_group[1])
        ELSE seg.groups


\* ------------------------------------------------------ table of contents
\* main.py:467, 502, 504
TOC_MIN_TEXT == 10
TOC_SUB_ITEMS == 3
TOC_SUB_LEN == 40

\* cat.get('MainCategory', cat.get('Category', '')): main.py 488, 616
CatName(cat) ==
    IF "MainCategory" \in DOMAIN cat THEN cat.MainCategory
    ELSE IF "Category" \in DOMAIN cat THEN cat.Category
    ELSE <<>>

\* cat.get('SubItems', [])
CatSubItems(cat) == IF "SubItems" \in DOMAIN cat THEN cat.SubItems ELSE <<>>

\* f"{no}. {name}": main.py 489, 644 (app.py 236, 370)
NumberedTitle(no, name) == IntToStr(no) \o <<".", " ">> \o name

\* "\n".join(lines)
RECURSIVE JoinLines(_)
JoinLines(lines) ==
    IF lines = <<>> THEN <<>>
    ELSE IF Len(lines) = 1 THEN lines[1]
    ELSE lines[1] \o <<"\n">> \o JoinLines(Tail(lines))

\* shape.text_frame.text.strip() of a shape of the table-of-contents slide
ShapeText(shape) == strip(JoinLines(shape.paragraphs))

\* main.py lines 459-469: the first shape of greatest area among those with
\* a text frame and more than 10 characters of text; 0 when there is none
RECURSIVE TocTarget(_, _, _, _)
TocTarget(shapes, i, max_area, target) ==
    IF i > Len(shapes) THEN target
    ELSE IF shapes[i].has_text_frame
            /\ Len(ShapeText(shapes[i])) > TOC_MIN_TEXT
            /\ shapes[i].area > max_area
         THEN TocTarget(shapes, i + 1, shapes[i].area, i)
         ELSE TocTarget(shapes, i + 1, max_area, target)

\* paragraphs with every sub-item of a category
RECURSIVE TocParagraphsAllSubItems(_)
TocParagraphsAllSubItems(cats) ==
    IF cats = <<>> THEN <<>>
    ELSE LET cat == Head(cats)
             subs == CatSubItems(cat)
         IN  <<NumberedTitle(cat.No, CatName(cat))>>
                \o [i \in 1..Len(subs) |->
                       <<" ", " ", "*", " ">> \o Slice(subs[i], TOC_SUB_LEN)]
                \o TocParagraphsAllSubItems(Tail(cats))

\* main.py lines 480-513: the paragraphs written for the categories; "*"
\* stands for the bullet character of line 504
RECURSIVE TocParagraphs(_)
TocParagraphs(cats) ==
    IF cats = <<>> THEN <<>>
    ELSE LET cat == Head(cats)
             subs == Slice(CatSubItems(cat), TOC_SUB_ITEMS)
         IN  <<NumberedTitle(cat.No, CatName(cat))>>
                \o [i \in 1..Len(subs) |->
                       <<" ", " ", "*", " ">> \o Slice(subs[i], TOC_SUB_LEN)]
                \o TocParagraphs(Tail(cats))

\* main.py populate_toc lines 455-516; tf.clear() leaves one empty paragraph
populate_toc(shapes, cats) ==
    LET target == TocTarget(shapes, 1, 0, 0)
    IN  IF target = 0 THEN shapes
        ELSE [shapes EXCEPT ![target].paragraphs =
                 IF cats = <<>> THEN << <<>> >> ELSE TocParagraphs(cats)]

\* app.py populate_toc line 241: text of digits and white space only
DigitsOnly(text) ==
    text # <<>> /\ \A i \in 1..Len(text) : IsDigit(text[i]) \/ text[i] \in Whitespace

\* app.py populate_toc lines 234-248: the first such shape gets the whole list
app_populate_toc(shapes, cats) ==
    LET hits == {i \in 1..Len(shapes) :
                    shapes[i].has_text_frame /\ DigitsOnly(ShapeText(shapes[i]))}
        toc_text == JoinLines([i \in 1..Len(cats) |->
                                  NumberedTitle(cats[i].No, cats[i].Category)])
    IN  IF hits = {} THEN shapes
        ELSE LET target == CHOOSE i \in hits : \A j \in hits : i <= j
             IN  [shapes EXCEPT ![target].paragraphs = <<toc_text>>]

\* ---------------------------------------------------------------- matching
\* The matching oracle's answer after json.loads: unparseable (ok = FALSE) or
\* an object, here the sequence of its (key, value) pairs; a key is the text
\* of a category number, a value an integer.
\* main.py create_matching_with_ai lines 420-431 (app.py 289-294): keys are
\* turned into integers, entries with a negative value are left out
RECURSIVE KeepNonNegative(_, _)
KeepNonNegative(items, mapping) ==
    IF items = <<>> THEN mapping
    ELSE LET pdf_no_int == ToInt(Head(items)[1])
             pptx_idx == Head(items)[2]
         IN  KeepNonNegative(Tail(items),
                IF pptx_idx >= 0
                THEN [k \in DOMAIN mapping \cup {pdf_no_int} |->
                         IF k = pdf_no_int THEN pptx_idx ELSE mapping[k]]
                ELSE mapping)

\* the empty dict
EmptyMapping == [k \in {} |-> 0]

\* main.py create_matching_with_ai lines 407-439: {} on any exception
create_matching_with_ai(resp) ==
    IF resp.ok THEN KeepNonNegative(resp.items, EmptyMapping) ELSE EmptyMapping

\* groups[pptx_idx] of Python: a negative index counts from the end, an index
\* out of range raises IndexError (None here)
GroupAt(groups, pptx_idx) ==
    IF 0 <= pptx_idx /\ pptx_idx < Len(groups) THEN Some(groups[pptx_idx + 1])
    ELSE IF pptx_idx < 0 /\ 0 <= Len(groups) + pptx_idx
         THEN Some(groups[Len(groups) + pptx_idx + 1])
         ELSE None

\* an off-by-one bound test
IndexAcceptedUpToLen(pptx_idx, groups) == pptx_idx <= Len(groups)

\* main.py line 619 (app.py 357)
IndexAccepted(pptx_idx, groups) == pptx_idx < Len(groups)

\* main.py lines 611-626 (app.py 350-359): one category of the loop
ResolveStep(res, cat, mapping, groups) ==
    IF res.raised \/ cat.No \notin DOMAIN mapping
       \/ ~IndexAccepted(mapping[cat.No], groups)
    THEN res
    ELSE LET group == GroupAt(groups, mapping[cat.No])
         IN  IF group = None THEN [res EXCEPT !.raised = TRUE]
             ELSE [res EXCEPT
                      !.matched_list = Append(@, [pdf_no |-> cat.No,
                                                  category_name |-> CatName(cat),
                                                  group |-> group[1]]),
                      !.used_groups = @ \cup {mapping[cat.No]}]

RECURSIVE ResolveAll(_, _, _, _)
ResolveAll(res, cats, mapping, groups) ==
    IF cats = <<>> THEN res
    ELSE ResolveAll(ResolveStep(res, Head(cats), mapping, groups),
                    Tail(cats), mapping, groups)

\* main.py lines 611-626
Resolve(cats, mapping, groups) ==
    ResolveAll([raised |-> FALSE, matched_list |-> <<>>, used_groups |-> {}],
               cats, mapping, groups)

\* main.py line 629 (app.py 361): the groups no category used, in order
RECURSIVE UnusedFrom(_, _, _)
UnusedFrom(groups, used_groups, i) ==
    IF i >= Len(groups) THEN <<>>
    ELSE (IF i \in used_groups THEN <<>> ELSE <<groups[i + 1]>>)
            \o UnusedFrom(groups, used_groups, i + 1)

UnusedGroups(groups, used_groups) == UnusedFrom(groups, used_groups, 0)

\* matched_list.sort(key=lambda x: x[0]): stable, ascending: main.py 640
RECURSIVE InsertByPdfNo(_, _)
InsertByPdfNo(sorted, m) ==
    IF sorted = <<>> THEN <<m>>
    ELSE IF sorted[Len(sorted)].pdf_no <= m.pdf_no
         THEN Append(sorted, m)
         ELSE Append(InsertByPdfNo(SubSeq(sorted, 1, Len(sorted) - 1), m),
                     sorted[Len(sorted)])

RECURSIVE SortMatched(_)
SortMatched(ms) ==
    IF ms = <<>> THEN <<>>
    ELSE InsertByPdfNo(SortMatched(SubSeq(ms, 1, Len(ms) - 1)), ms[Len(ms)])

\* the title written whether or not the slide has a title placeholder
update_slide_titleAnyway(slide, new_title) == [slide EXCEPT !.title = new_title]

\* main.py update_slide_title lines 525-533: nothing without a placeholder
update_slide_title(slide, new_title) ==
    IF slide.ph THEN [slide EXCEPT !.title = new_title] ELSE slide

\* main.py lines 641-646: the titles after the loop over the matched list
RECURSIVE Retitle(_, _)
Retitle(slides, ms) ==
    IF ms = <<>> THEN slides
    ELSE LET first_slide_idx == Head(ms).group.slides[1]
             new_title == NumberedTitle(Head(ms).pdf_no, Head(ms).category_name)
         IN  Retitle([slides EXCEPT ![first_slide_idx + 1] =
                         update_slide_title(@, new_title)],
                     Tail(ms))

\* the slide indices of a list of groups, in order
RECURSIVE GroupSlides(_)
GroupSlides(gs) ==
    IF gs = <<>> THEN <<>> ELSE Head(gs).slides \o GroupSlides(Tail(gs))

\* the unused groups placed before the matched ones
NewOrderUnusedFirst(ms, unused) ==
    [i \in 1..FIXED_SLIDES |-> i - 1]
        \o GroupSlides(unused)
        \o GroupSlides([i \in 1..Len(ms) |-> ms[i].group])

\* main.py lines 637-657 (app.py 364-378)
NewOrder(ms, unused) ==
    [i \in 1..FIXED_SLIDES |-> i - 1]
        \o GroupSlides([i \in 1..Len(ms) |-> ms[i].group])
        \o GroupSlides(unused)

\* xml_slides.append(element): an element has one parent, so appending one
\* that is already in the list moves it to the end
AppendMoving(xml_slides, element) ==
    LET RECURSIVE Without(_)
        Without(q) ==
            IF q = <<>> THEN <<>>
            ELSE (IF Head(q) = element THEN <<>> ELSE <<Head(q)>>) \o Without(Tail(q))
    IN  Append(Without(xml_slides), element)

\* main.py lines 661-668 (app.py 384-391): the list is emptied, then the
\* slides are appended in the new order
RECURSIVE ApplyOrder(_, _)
ApplyOrder(xml_slides, order) ==
    IF order = <<>> THEN xml_slides
    ELSE ApplyOrder(AppendMoving(xml_slides, Head(order)), Tail(order))



\* ----------------------------------------------- extraction: state machine
VARIABLES
    ex_pc,      \* "start", "pdf" (reading pages), "done"
    ex_kind,    \* which entry point ran: "pdf", "excel", "ai"
    ex_st,      \* loop state of extract_categories_from_pdf
    ex_pages,   \* the pages read completely, each a sequence of tables
    ex_page,    \* the tables read of the page being read
    ex_answer,  \* the extraction oracle's answer
    ex_result,  \* the list extract_categories returned
    ex_again    \* None, or the list a second call on the same pages returned

ex_vars == <<ex_pc, ex_kind, ex_st, ex_pages, ex_page, ex_answer, ex_result,
             ex_again>>

\* ------------------------------------------------ the pipeline: variables
VARIABLES
    pc,            \* position of the run in main() / process_pptx
    pipeline,      \* "cli" (main.py) or "web" (app.py)
    categories,    \* the taxonomy extract_categories returned
    slides,        \* the slides of the deck by original index (titles change)
    toc,           \* the shapes of the table-of-contents slide (index 1)
    opened,        \* the deck as it was opened: [slides, toc]
    groups,        \* the groups of the segmentation
    response,      \* the matching oracle's answer
    match_calls,   \* number of calls of the matching oracle
    mapping,       \* category No -> group index
    matched_list,  \* (pdf_no, category_name, group) entries
    used_groups,   \* set of group indices
    unused_groups, \* groups no category used
    new_order,     \* the computed order of slide indices
    xml_slides,    \* the deck's slide list (prs.slides._sldIdLst), by original index
    output         \* None, or the saved deck and the reported counts

run_vars == <<pc, pipeline, categories, slides, toc, opened, groups, response,
              match_calls, mapping, matched_list, used_groups, unused_groups,
              new_order, xml_slides, output>>

\* text literals of the documents
Intro == <<"I", "n", "t", "r", "o">>
Overview == <<"O", "v", "e", "r", "v", "i", "e", "w">>
Scope == <<"S", "c", "o", "p", "e">>
Detail == <<"D", "e", "t", "a", "i", "l">>

\* the rows the documents are made of
RowPool ==
    { <<Some(<<"1">>), Some(Intro)>>,
      <<Some(<<"1">>), Some(Overview), Some(<<"2">>), Some(Detail)>>,
      <<Some(<<" ", "2", ".">>), Some(Overview \o <<"\n">> \o Detail)>>,
      <<Some(<<"2">>), Some(Overview)>>,
      <<Some(<<"1">>), Some(<<"1">>), Some(Scope)>>,
      <<Some(<<>>), Some(<<>>), Some(<<"1">>), Some(Scope)>>,
      <<None, None, Some(<<"2">>), Some(<<" ">> \o Detail \o <<"\n">> \o Scope)>>,
      <<Some(Scope)>> }

\* rows and tables read so far
RowsRead == RowCount(Flatten(ex_pages) \o ex_page)
TablesRead == Len(Flatten(ex_pages) \o ex_page)

ExtractInit ==
    /\ ex_pc = "start"
    /\ ex_kind = "none"
    /\ ex_st = ExInit
    /\ ex_pages = <<>>
    /\ ex_page = <<>>
    /\ ex_answer = [ok |-> FALSE, items |-> <<>>]
    /\ ex_result = <<>>
    /\ ex_again = None

\* one table of the page: main.py lines 103-144
ReadTable ==
    /\ ex_pc \in {"start", "pdf"}
    /\ TablesRead < MaxTables
    /\ \E table \in SeqsUpTo(RowPool, MaxDocRows - RowsRead) :
          /\ ex_st' = ProcessTable(ex_st, table)
          /\ ex_page' = Append(ex_page, table)
    /\ ex_pc' = "pdf"
    /\ UNCHANGED <<ex_kind, ex_pages, ex_answer, ex_result, ex_again>>
    /\ UNCHANGED run_vars

\* end of a page: main.py lines 146-149
EndPage ==
    /\ ex_pc = "pdf"
    /\ ex_page # <<>>
    /\ ex_st' = EndOfPage(ex_st)
    /\ ex_pages' = Append(ex_pages, ex_page)
    /\ ex_page' = <<>>
    /\ UNCHANGED <<ex_pc, ex_kind, ex_answer, ex_result, ex_again>>
    /\ UNCHANGED run_vars

\* end of the document: main.py lines 155-171
ReturnPdf ==
    /\ ex_pc \in {"start", "pdf"}
    /\ ex_page = <<>>
    /\ ex_result' = FinishPdf(ex_st)
    /\ ex_pc' = "done"
    /\ ex_kind' = "pdf"
    /\ UNCHANGED <<ex_st, ex_pages, ex_page, ex_answer, ex_again>>
    /\ UNCHANGED run_vars

\* a spreadsheet: main.py extract_categories_from_excel
ExtractExcel ==
    /\ ex_pc = "start"
    /\ \E rows \in SeqsUpTo(RowPool, MaxDocRows) :
          /\ ex_pages' = << <<rows>> >>
          /\ ex_result' = extract_categories_from_excel(rows)
    /\ ex_pc' = "done"
    /\ ex_kind' = "excel"
    /\ UNCHANGED <<ex_st, ex_page, ex_answer, ex_again>>
    /\ UNCHANGED run_vars

\* what the extraction oracle may answer
AiItems ==
    [No : 1..MaxNo, Category : {Intro, Overview}] \cup [Category : {Intro}]

AiResponses ==
    {[ok |-> FALSE, items |-> <<>>]}
        \cup {[ok |-> TRUE, items |-> items] : items \in SeqsUpTo(AiItems, MaxNo + 1)}

\* a word-processing document or an image: main.py extract_categories_with_ai
ExtractAi ==
    /\ ex_pc = "start"
    /\ \E resp \in AiResponses :
          /\ ex_answer' = resp
          /\ ex_result' = extract_categories_with_ai(resp)
    /\ ex_pc' = "done"
    /\ ex_kind' = "ai"
    /\ UNCHANGED <<ex_st, ex_pages, ex_page, ex_again>>
    /\ UNCHANGED run_vars

\* a line of more than SUB_ITEM_MAX characters
LongLine == [i \in 1..(SUB_ITEM_MAX + 1) |-> "x"]

\* two-row tables: a main-item row of No 1 or 2, a sub-item row, a sub-item
\* row with a long first line, a row of one cell
TablePool ==
    LET rows == { <<Some(<<"1">>), Some(Intro)>>,
                  <<Some(<<"2">>), Some(Overview)>>,
                  <<Some(<<>>), Some(<<>>), Some(<<"1">>), Some(Scope)>>,
                  <<None, None, Some(<<"2">>), Some(LongLine \o <<"\n">> \o Scope)>>,
                  <<Some(Scope)>> }
    IN  {<<a, b>> : a \in rows, b \in rows}

\* one table of two rows: main.py lines 103-144
ReadPoolTable ==
    /\ ex_pc \in {"start", "pdf"}
    /\ TablesRead < MaxPoolTables
    /\ \E table \in TablePool :
          /\ ex_st' = ProcessTable(ex_st, table)
          /\ ex_page' = Append(ex_page, table)
    /\ ex_pc' = "pdf"
    /\ UNCHANGED <<ex_kind, ex_pages, ex_answer, ex_result, ex_again>>
    /\ UNCHANGED run_vars

\* a call that starts with the category the call before left open
StartStateKeepsOpen(left) == [categories |-> <<>>, current |-> left.current]

\* main.py lines 94-95: categories and current_category are local to the
\* call and set anew, whatever the call before left in them
StartState(left) == ExInit

\* a second call of extract_categories_from_pdf on the same document
ExtractAgain ==
    /\ ex_pc = "done"
    /\ ex_kind = "pdf"
    /\ ex_again = None
    /\ ex_again' = Some(FinishPdf(PdfPages(StartState(ex_st), ex_pages)))
    /\ UNCHANGED <<ex_pc, ex_kind, ex_st, ex_pages, ex_page, ex_answer, ex_result>>
    /\ UNCHANGED run_vars


\* ---------------------------------------------------- the pipeline: inputs
CategoryName(n) == IF n % 2 = 1 THEN Intro ELSE Overview

\* a one-page checklist: for each number a main-item row and a sub-item row
RECURSIVE ChecklistRows(_, _)
ChecklistRows(n, last) ==
    IF n > last THEN <<>>
    ELSE << <<Some(IntToStr(n)), Some(CategoryName(n))>>,
            <<None, None, Some(<<"1">>), Some(Scope)>> >>
            \o ChecklistRows(n + 1, last)

PdfDocuments == {<< << ChecklistRows(1, last) >> >> : last \in 0..MaxNo}

\* answers of the extraction oracle: malformed; the numbers 1..k in order;
\* one number twice; all the numbers in descending order
OracleLists ==
    LET item(n) == [No |-> n, Category |-> CategoryName(n)]
    IN  {[ok |-> FALSE, items |-> <<>>]}
            \cup {[ok |-> TRUE, items |-> [i \in 1..k |-> item(i)]] : k \in 0..MaxNo}
            \cup {[ok |-> TRUE, items |-> <<item(n), item(n)>>] : n \in 1..MaxNo}
            \cup {[ok |-> TRUE, items |-> [i \in 1..MaxNo |-> item(MaxNo + 1 - i)]]}

Features == <<" ", "F", "e", "a", "t", "u", "r", "e", "s">>
Contents == <<"C", "o", "n", "t", "e", "n", "t", "s", " ", "l", "i", "s", "t">>

CoverSlide == [ph |-> TRUE, title |-> <<"C", "o", "v", "e", "r">>, body |-> <<>>]
TocSlide == [ph |-> TRUE, title |-> <<"T", "O", "C">>, body |-> Contents]

\* a text of more than TITLE_SNIPPET_MAX characters
LongText == [i \in 1..(TITLE_SNIPPET_MAX + 1) |-> "y"]

\* content slides: titled; untitled text without a title placeholder; an
\* empty title placeholder and no text
SlidePool ==
    { [ph |-> TRUE, title |-> Features, body |-> Detail],
      [ph |-> FALSE, title |-> <<>>, body |-> LongText],
      [ph |-> TRUE, title |-> <<" ">>, body |-> <<>>] }

Decks ==
    {<<>>, <<CoverSlide>>}
        \cup {<<CoverSlide, TocSlide>> \o content :
                content \in SeqsUpTo(SlidePool, MaxSlides - FIXED_SLIDES)}

\* the shapes of a table-of-contents slide: a list box and a page number
TocShapes ==
    << [has_text_frame |-> TRUE, area |-> 6, paragraphs |-> <<Contents>>],
       [has_text_frame |-> TRUE, area |-> 1, paragraphs |-> << <<"2">> >>] >>

\* the pairs of an object with the keys of S, in ascending order
RECURSIVE PairsOf(_, _)
PairsOf(S, f) ==
    IF S = {} THEN <<>>
    ELSE LET k == CHOOSE x \in S : \A y \in S : x <= y
         IN  << <<IntToStr(k), f[k]>> >> \o PairsOf(S \ {k}, f)

\* answers of the matching oracle: unparseable, or any object from some of
\* the numbers 1..MaxNo to -1 (no match) or an index, in or out of range
MatchResponses ==
    {[ok |-> FALSE, items |-> <<>>]}
        \cup {[ok |-> TRUE, items |-> PairsOf(S, f)] :
                S \in SUBSET (1..MaxNo),
                f \in [1..MaxNo -> -1..(MaxSlides - FIXED_SLIDES)]}

\* --------------------------------------------------- the pipeline: actions
RunInit ==
    /\ pc = "start"
    /\ pipeline \in {"cli", "web"}
    /\ categories = <<>>
    /\ slides = <<>>
    /\ toc = <<>>
    /\ opened = [slides |-> <<>>, toc |-> <<>>]
    /\ groups = <<>>
    /\ response = [ok |-> FALSE, items |-> <<>>]
    /\ match_calls = 0
    /\ mapping = EmptyMapping
    /\ matched_list = <<>>
    /\ used_groups = {}
    /\ unused_groups = <<>>
    /\ new_order = <<>>
    /\ xml_slides = <<>>
    /\ output = None

\* a run that goes on with whatever list the extraction returned
ExtractOutcomeCarriesOn(cats) == "extracted"

\* main.py main lines 732-734 (app.py 505-507): an empty taxonomy ends the run
ExtractOutcome(cats) == IF cats = <<>> THEN "fatal_empty" ELSE "extracted"

\* main.py main lines 730-734 (app.py 503-507): extraction; an empty
\* taxonomy ends the run
Extract ==
    /\ pc = "start"
    /\ \/ /\ \E pages \in PdfDocuments :
                categories' = IF pipeline = "cli"
                              THEN extract_categories_from_pdf(pages)
                              ELSE app_extract_categories_from_pdf(pages)
          /\ pc' = ExtractOutcome(categories')
       \/ /\ pipeline = "cli"
          /\ \E resp \in OracleLists :
                categories' = extract_categories_with_ai(resp)
          /\ pc' = ExtractOutcome(categories')
       \/ /\ pipeline = "web"
          /\ \E resp \in OracleLists :
                LET r == app_extract_categories_with_ai(resp)
                IN  /\ categories' = r.categories
                    /\ pc' = IF r.raised THEN "raised_extract"
                             ELSE ExtractOutcome(r.categories)
    /\ UNCHANGED <<pipeline, slides, toc, opened, groups, response, match_calls,
                   mapping, matched_list, used_groups, unused_groups, new_order,
                   xml_slides, output>>
    /\ UNCHANGED ex_vars

\* main.py main lines 739-743, extract_categories_from_pdf 151-153: the
\* document cannot be opened or decoded
ExtractFails ==
    /\ pc = "start"
    /\ pc' = "fatal_unreadable"
    /\ UNCHANGED <<pipeline, categories, slides, toc, opened, groups, response,
                   match_calls, mapping, matched_list, used_groups, unused_groups,
                   new_order, xml_slides, output>>
    /\ UNCHANGED ex_vars

\* a deck of exactly the anchor slides let through
TooFewSlidesStrict(total_slides) == total_slides < FIXED_SLIDES

\* main.py line 547 (app.py 304)
TooFewSlides(total_slides) == total_slides <= FIXED_SLIDES

\* main.py process_pptx lines 539-549 (app.py 299-305)
OpenDeck ==
    /\ pc = "extracted"
    /\ \E deck \in Decks :
          /\ slides' = deck
          /\ toc' = IF Len(deck) >= FIXED_SLIDES THEN TocShapes ELSE <<>>
          /\ xml_slides' = [i \in 1..Len(deck) |-> i - 1]
          /\ pc' = IF TooFewSlides(Len(deck)) THEN "fatal_too_few" ELSE "opened"
    /\ opened' = [slides |-> slides', toc |-> toc']
    /\ UNCHANGED <<pipeline, categories, groups, response, match_calls, mapping,
                   matched_list, used_groups, unused_groups, new_order, output>>
    /\ UNCHANGED ex_vars

\* main.py line 556 (app.py 310)
PopulateToc ==
    /\ pc = "opened"
    /\ toc' = IF pipeline = "cli" THEN populate_toc(toc, categories)
              ELSE app_populate_toc(toc, categories)
    /\ pc' = "toc_done"
    /\ UNCHANGED <<pipeline, categories, slides, opened, groups, response,
                   match_calls, mapping, matched_list, used_groups, unused_groups,
                   new_order, xml_slides, output>>
    /\ UNCHANGED ex_vars

\* main.py lines 559-591 (app.py 316-338)
Segment ==
    /\ pc = "toc_done"
    /\ groups' = SegmentDeck(slides)
    /\ pc' = "segmented"
    /\ UNCHANGED <<pipeline, categories, slides, toc, opened, response,
                   match_calls, mapping, matched_list, used_groups, unused_groups,
                   new_order, xml_slides, output>>
    /\ UNCHANGED ex_vars

\* no test of the mapping: the run carries on with whatever it got
MatchOutcomeCarriesOn(pl, answered, map, raised) ==
    IF raised THEN "raised_match" ELSE "matched"

\* main.py lines 601-603: an empty mapping ends the command-line run
\* ("matching failed"); app.py has no such test, and there an answer that
\* cannot be parsed raises out of create_matching_with_ai (app.py 289).
\* raised: groups[pptx_idx] raised IndexError.
MatchOutcome(pl, answered, map, raised) ==
    IF pl = "cli"
    THEN IF map = EmptyMapping THEN "match_failed"
         ELSE IF raised THEN "raised_match" ELSE "matched"
    ELSE IF ~answered \/ raised THEN "raised_match" ELSE "matched"

\* main.py lines 598-629 (app.py 344-361): the oracle is asked, its answer
\* validated, the matched list and the unused groups built
Match ==
    /\ pc = "segmented"
    /\ match_calls' = match_calls + 1
    /\ \E resp \in MatchResponses :
          /\ response' = resp
          /\ mapping' = create_matching_with_ai(resp)
    /\ LET res == Resolve(categories, mapping', groups)
       IN  /\ pc' = MatchOutcome(pipeline, response'.ok, mapping', res.raised)
           /\ IF pc' = "matched"
              THEN /\ matched_list' = res.matched_list
                   /\ used_groups' = res.used_groups
                   /\ unused_groups' = UnusedGroups(groups, res.used_groups)
              ELSE UNCHANGED <<matched_list, used_groups, unused_groups>>
    /\ UNCHANGED <<pipeline, categories, slides, toc, opened, groups, new_order,
                   xml_slides, output>>
    /\ UNCHANGED ex_vars

\* main.py lines 637-658 (app.py 364-378): titles and the new order
Reorder ==
    /\ pc = "matched"
    /\ matched_list' = SortMatched(matched_list)
    /\ slides' = Retitle(slides, matched_list')
    /\ new_order' = NewOrder(matched_list', unused_groups)
    /\ pc' = "ordered"
    /\ UNCHANGED <<pipeline, categories, toc, opened, groups, response,
                   match_calls, mapping, used_groups, unused_groups, xml_slides,
                   output>>
    /\ UNCHANGED ex_vars

\* main.py lines 661-668 (app.py 384-391)
Apply ==
    /\ pc = "ordered"
    /\ xml_slides' = ApplyOrder(<<>>, new_order)
    /\ pc' = "applied"
    /\ UNCHANGED <<pipeline, categories, slides, toc, opened, groups, response,
                   match_calls, mapping, matched_list, used_groups, unused_groups,
                   new_order, output>>
    /\ UNCHANGED ex_vars

\* a save placed before the slide list is rebuilt
SaveBeforeApply ==
    /\ pc = "ordered"
    /\ output' = Some([order |-> xml_slides, slides |-> slides, toc |-> toc,
                       matchedCount |-> Len(matched_list),
                       unusedCount |-> Len(unused_groups)])
    /\ pc' = "done"
    /\ UNCHANGED <<pipeline, categories, slides, toc, opened, groups, response,
                   match_calls, mapping, matched_list, used_groups, unused_groups,
                   new_order, xml_slides>>
    /\ UNCHANGED ex_vars

\* main.py lines 673-683 (app.py 394-401): the deck is saved, the counts
\* reported
Save ==
    /\ pc = "applied"
    /\ output' = Some([order |-> xml_slides, slides |-> slides, toc |-> toc,
                       matchedCount |-> Len(matched_list),
                       unusedCount |-> Len(unused_groups)])
    /\ pc' = "done"
    /\ UNCHANGED <<pipeline, categories, slides, toc, opened, groups, response,
                   match_calls, mapping, matched_list, used_groups, unused_groups,
                   new_order, xml_slides>>
    /\ UNCHANGED ex_vars

\* ------------------------------------------- the table of contents: inputs
\* shapes of a table-of-contents slide: the list box, the page number, a
\* short title, a long number, a caption, a picture
ShapePool ==
    { [has_text_frame |-> TRUE, area |-> 6, paragraphs |-> <<Contents>>],
      [has_text_frame |-> TRUE, area |-> 1, paragraphs |-> << <<"2">> >>],
      [has_text_frame |-> TRUE, area |-> 3, paragraphs |-> << <<"T", "O", "C">> >>],
      [has_text_frame |-> TRUE, area |-> 8,
       paragraphs |-> << <<"1", "2", "3", "4", "5", "6">>, <<"7", "8", "9", "0", "1">> >>],
      [has_text_frame |-> TRUE, area |-> 6, paragraphs |-> <<Features \o Contents>>],
      [has_text_frame |-> FALSE, area |-> 9, paragraphs |-> <<>>] }

TocLayouts == SeqsUpTo(ShapePool, MaxTocShapes)

\* taxonomies: from a checklist, with two or four sub-items to a category,
\* the third of them a long one; from the extraction oracle, with none
TocSubItems(n) ==
    SubSeq(<<Scope, Detail, Slice(LongText, TITLE_SNIPPET_MAX), Overview>>,
           1, IF n % 2 = 1 THEN 4 ELSE 2)

ChecklistTaxonomies ==
    {[i \in 1..k |-> [No |-> i, MainCategory |-> CategoryName(i),
                       SubItems |-> TocSubItems(i)]] : k \in 1..MaxNo}

OracleTaxonomies ==
    {[i \in 1..k |-> [No |-> i, Category |-> CategoryName(i)]] : k \in 1..MaxNo}

\* a run at the call of populate_toc (main.py line 556, app.py line 310)
TocInit ==
    /\ pc = "opened"
    /\ pipeline \in {"cli", "web"}
    /\ categories \in (IF pipeline = "cli"
                       THEN ChecklistTaxonomies \cup OracleTaxonomies
                       ELSE OracleTaxonomies)
    /\ slides = <<CoverSlide, TocSlide, CoverSlide>>
    /\ toc \in TocLayouts
    /\ opened = [slides |-> slides, toc |-> toc]
    /\ groups = <<>>
    /\ response = [ok |-> FALSE, items |-> <<>>]
    /\ match_calls = 0
    /\ mapping = EmptyMapping
    /\ matched_list = <<>>
    /\ used_groups = {}
    /\ unused_groups = <<>>
    /\ new_order = <<>>
    /\ xml_slides = <<0, 1, 2>>
    /\ output = None

\* ------------------------------------------------------- specifications
RunIdle ==
    /\ pc = "idle"
    /\ pipeline = "cli"
    /\ categories = <<>>
    /\ slides = <<>>
    /\ toc = <<>>
    /\ opened = [slides |-> <<>>, toc |-> <<>>]
    /\ groups = <<>>
    /\ response = [ok |-> FALSE, items |-> <<>>]
    /\ match_calls = 0
    /\ mapping = EmptyMapping
    /\ matched_list = <<>>
    /\ used_groups = {}
    /\ unused_groups = <<>>
    /\ new_order = <<>>
    /\ xml_slides = <<>>
    /\ output = None

ExtractIdle ==
    /\ ex_pc = "idle"
    /\ ex_kind = "none"
    /\ ex_st = ExInit
    /\ ex_pages = <<>>
    /\ ex_page = <<>>
    /\ ex_answer = [ok |-> FALSE, items |-> <<>>]
    /\ ex_result = <<>>
    /\ ex_again = None

vars == <<ex_vars, run_vars>>

\* one run of the pipeline, command line or web
Init == RunInit /\ ExtractIdle

Next ==
    \/ Extract \/ ExtractFails \/ OpenDeck \/ PopulateToc \/ Segment
    \/ Match \/ Reorder \/ Apply \/ Save

Spec == Init /\ [][Next]_vars

\* one extraction, row by row
InitExtract == ExtractInit /\ RunIdle

NextExtract ==
    \/ ReadTable \/ EndPage \/ ReturnPdf \/ ExtractAgain
    \/ ExtractExcel \/ ExtractAi

SpecExtract == InitExtract /\ [][NextExtract]_vars

\* one tabular extraction, table by table
NextTables == ReadPoolTable \/ EndPage \/ ReturnPdf \/ ExtractAgain

SpecTables == InitExtract /\ [][NextTables]_vars

\* the update of the table of contents
InitToc == TocInit /\ ExtractIdle

NextToc == PopulateToc

SpecToc == InitToc /\ [][NextToc]_vars

\* ================================================================ claims
\* positions of the run
Reordered == pc \in {"ordered", "applied", "done"}
Segmented ==
    pc \in {"segmented", "matched", "match_failed", "raised_match",
            "ordered", "applied", "done"}

\* the slide indices of the deck that was opened
SlideIndices == 0..(Len(opened.slides) - 1)

Occurrences(q, x) == Cardinality({i \in 1..Len(q) : q[i] = x})

\* C1: every reorder gives a new order of the deck's length that holds every
\* slide index exactly once and keeps the anchors 0 and 1 in place, also
\* when several categories map to the same group.
C1_NewOrderIsPermutation ==
    Reordered =>
        /\ Len(new_order) = Len(opened.slides)
        /\ \A x \in SlideIndices : Occurrences(new_order, x) = 1
        /\ \A i \in 1..FIXED_SLIDES : new_order[i] = i - 1

\* C2: the groups of the segmentation partition the content region: every
\* group's slide list is non-empty, ascending and contiguous, and the lists
\* concatenated are FIXED_SLIDES, FIXED_SLIDES + 1, ..., len(deck) - 1.
C2_GroupsPartitionContent ==
    Segmented =>
        /\ \A g \in 1..Len(groups) :
              /\ groups[g].slides # <<>>
              /\ \A i \in 1..(Len(groups[g].slides) - 1) :
                    groups[g].slides[i + 1] = groups[g].slides[i] + 1
        /\ GroupSlides(groups) =
              [i \in 1..(Len(opened.slides) - FIXED_SLIDES) |-> FIXED_SLIDES + i - 1]

\* C2 witness: a deck segmented into a group of one titled slide followed by
\* an untitled one
C2_Witness ==
    /\ pc = "segmented"
    /\ Len(groups) = 1
    /\ groups[1].slides = <<FIXED_SLIDES, FIXED_SLIDES + 1>>

\* C3: whatever entry point produced it, the returned category list is
\* strictly ascending by No.
C3_StrictlyAscendingNo ==
    ex_pc = "done" =>
        \A i \in 1..Len(ex_result) : \A j \in 1..Len(ex_result) :
            i < j => ex_result[i].No < ex_result[j].No

\* the table of Scenario A and the same table with the sub-item in a row of
\* four cells (number in the third cell, text in the fourth)
ScenarioATable ==
    << <<Some(<<"1">>), Some(Intro)>>,
       <<Some(<<"1">>), Some(<<"1">>), Some(Scope)>>,
       <<Some(<<"2">>), Some(Overview)>> >>

FourCellTable ==
    << <<Some(<<"1">>), Some(Intro)>>,
       <<Some(<<>>), Some(<<>>), Some(<<"1">>), Some(Scope)>>,
       <<Some(<<"2">>), Some(Overview)>> >>

ScenarioAResult ==
    << [No |-> 1, MainCategory |-> Intro, SubItems |-> <<Scope>>],
       [No |-> 2, MainCategory |-> Overview, SubItems |-> <<>>] >>

ExtractedFrom(table) ==
    ex_pc = "done" /\ ex_kind = "pdf" /\ ex_pages = << <<table>> >>

\* C4 as claimed: a table with rows ["1","Intro"], ["1","1","Scope"],
\* ["2","Overview"] yields Intro with the sub-item Scope, then Overview.
C4_ScenarioA == ExtractedFrom(ScenarioATable) => ex_result = ScenarioAResult

\* C4 amended: a sub-item row, which has its number in the third cell and its
\* text in the fourth, following a main-item row adds its text to that
\* category's SubItems and starts no category: the rows ["1","Intro"],
\* ["","","1","Scope"], ["2","Overview"] yield Intro with the sub-item Scope,
\* then Overview with none.
C4_ScenarioAFourCells == ExtractedFrom(FourCellTable) => ex_result = ScenarioAResult

\* C4 witness: the four-cell table has been extracted
C4_Witness == ExtractedFrom(FourCellTable) /\ Len(ex_result) = 2

\* what the matching oracle answered, read directly from its answer
AnswerFor(no) == {response.items[i][2] : i \in {j \in 1..Len(response.items) :
                                                   response.items[j][1] = IntToStr(no)}}

\* the answer names category cat with a group index of the segmentation
ValidlyMapped(cat) == \E v \in AnswerFor(cat.No) : 0 <= v /\ v < Len(groups)

TargetOf(cat) == CHOOSE v \in AnswerFor(cat.No) : 0 <= v /\ v < Len(groups)

\* the entries the valid part of the answer gives, in taxonomy order
RECURSIVE ValidEntries(_)
ValidEntries(cats) ==
    IF cats = <<>> THEN <<>>
    ELSE (IF ValidlyMapped(Head(cats))
          THEN << [pdf_no |-> Head(cats).No,
                   category_name |-> CatName(Head(cats)),
                   group |-> groups[TargetOf(Head(cats)) + 1]] >>
          ELSE <<>>) \o ValidEntries(Tail(cats))

Answered == match_calls = 1 /\ response.ok

Unanswered == match_calls = 1 /\ ~response.ok

RECURSIVE UntargetedFrom(_)
UntargetedFrom(i) ==
    IF i >= Len(groups) THEN <<>>
    ELSE (IF \E c \in 1..Len(categories) :
                ValidlyMapped(categories[c]) /\ TargetOf(categories[c]) = i
          THEN <<>> ELSE <<groups[i + 1]>>) \o UntargetedFrom(i + 1)

\* the slides of the groups of a list of entries
SlidesOfEntries(entries) ==
    UNION {{entries[i].group.slides[j] : j \in 1..Len(entries[i].group.slides)} :
           i \in 1..Len(entries)}

\* in q no slide of the set unused comes before a slide of the set matched
MatchedBeforeUnused(q, matched, unused) ==
    \A i \in 1..Len(q) : \A j \in 1..Len(q) :
        (i < j /\ q[i] \in unused) => q[j] \notin matched

\* C7: the new order is the anchors, then the slides of the matched groups in
\* ascending order of the matching category's No, each group in its own
\* order, then the slides of the unused groups in segmentation order; no
\* slide of an unused group precedes a slide of a matched group.
C7_NewOrderLayout ==
    Reordered =>
        LET entries == ValidEntries(categories)
            matched == SlidesOfEntries(entries)
            unused == SlideIndices \ (matched \cup (0..(FIXED_SLIDES - 1)))
        IN  /\ new_order =
                  [i \in 1..FIXED_SLIDES |-> i - 1]
                      \o GroupSlides([i \in 1..Len(entries) |-> entries[i].group])
                      \o GroupSlides(UntargetedFrom(0))
            /\ \A i \in 1..(Len(entries) - 1) : entries[i].pdf_no <= entries[i + 1].pdf_no
            /\ MatchedBeforeUnused(new_order, matched, unused)
            /\ pc \in {"applied", "done"} => MatchedBeforeUnused(xml_slides, matched, unused)

\* C7 witness: the second group matched, the first unused: they swap places
C7_Witness == pc = "done" /\ new_order = <<0, 1, 3, 2>> /\ xml_slides = new_order

\* the categories the answer validly maps to group i
Claimants(i) ==
    {c \in 1..Len(categories) :
        ValidlyMapped(categories[c]) /\ TargetOf(categories[c]) = i}

\* C8: a group that several categories map to is resolved to exactly one
\* category, the one of greatest No, and its first slide is titled with
\* that category's "<No>. <MainCategory>".
C8_LastWriterWins ==
    Reordered =>
        \A g \in 0..(Len(groups) - 1) :
            Cardinality(Claimants(g)) >= 2 =>
                LET last == CHOOSE c \in Claimants(g) : \A d \in Claimants(g) : d <= c
                    first == groups[g + 1].slides[1]
                IN  /\ Cardinality({i \in 1..Len(matched_list) :
                                       matched_list[i].group = groups[g + 1]}) = 1
                    /\ \A i \in 1..Len(matched_list) :
                          matched_list[i].group = groups[g + 1]
                              => matched_list[i].pdf_no = categories[last].No
                    /\ slides[first + 1].ph =>
                          slides[first + 1].title =
                              NumberedTitle(categories[last].No, CatName(categories[last]))

\* C9: for every entry of the matched list whose group's first slide has a
\* title placeholder, that slide's title after the reorder is exactly
\* "<No>. <MainCategory>" of the entry (main.py).
C9_MatchedSlidesRetitled ==
    (Reordered /\ pipeline = "cli") =>
        \A i \in 1..Len(matched_list) :
            LET first == matched_list[i].group.slides[1]
            IN  opened.slides[first + 1].ph =>
                    slides[first + 1].title =
                        NumberedTitle(matched_list[i].pdf_no, matched_list[i].category_name)

DeckOpened ==
    pc \notin {"idle", "start", "extracted", "fatal_empty", "fatal_unreadable",
               "raised_extract"}

\* C10: a deck of at most FIXED_SLIDES slides stops the run with the "too
\* few slides" error before the table of contents is changed, before the
\* matching oracle is called and without any output.
C10_TooFewSlidesAborts ==
    (DeckOpened /\ Len(opened.slides) <= FIXED_SLIDES) =>
        /\ pc = "fatal_too_few"
        /\ toc = opened.toc
        /\ slides = opened.slides
        /\ xml_slides = [i \in 1..Len(opened.slides) |-> i - 1]
        /\ match_calls = 0
        /\ output = None

\* C10 witness: a deck of exactly the two anchor slides was opened
C10_Witness == pc = "fatal_too_few" /\ Len(opened.slides) = FIXED_SLIDES

\* positions after the extraction returned or failed
ExtractionOver == pc \notin {"idle", "start"}

\* C11: when the extraction returns an empty taxonomy the run ends in a
\* fatal error: the deck is never opened or segmented, the matching oracle is
\* never called and no output is produced.
C11_EmptyTaxonomyIsFatal ==
    (ExtractionOver /\ categories = <<>>) =>
        /\ pc \in {"fatal_empty", "fatal_unreadable", "raised_extract"}
        /\ opened = [slides |-> <<>>, toc |-> <<>>]
        /\ slides = <<>>
        /\ groups = <<>>
        /\ match_calls = 0
        /\ output = None

\* C11 witness: the command-line run stopped on an empty taxonomy
C11_Witness == pc = "fatal_empty" /\ pipeline = "cli" /\ categories = <<>>

\* the positions a run ends in
FatalEnds == {"fatal_unreadable", "fatal_empty", "fatal_too_few"}
RunEnds == FatalEnds \cup {"raised_extract", "match_failed", "raised_match", "done"}

\* the stage that must have completed just before a stage completes
StageBefore(stage) ==
    CASE stage = "toc_done" -> {"opened"}
      [] stage = "segmented" -> {"toc_done"}
      [] stage \in {"matched", "match_failed", "raised_match"} -> {"segmented"}
      [] stage = "ordered" -> {"matched"}
      [] stage = "applied" -> {"ordered"}
      [] stage = "done" -> {"applied"}
      [] OTHER -> {"start", "extracted"}

\* one step of a run keeps the order of the stages and writes the output
\* only in the step from "applied" to "done", when none was written
StagesInOrder ==
    /\ pc \in RunEnds => UNCHANGED vars
    /\ pc' # pc => pc \in StageBefore(pc')
    /\ output' # output => /\ output = None
                           /\ pc = "applied" /\ pc' = "done"

\* the output holds the deck after every stage: the table of contents as
\* populate_toc left it, the retitled slides, the rebuilt slide list
WrittenAfterAllStages ==
    output # None =>
        /\ pc = "done"
        /\ match_calls = 1
        /\ groups = SegmentDeck(opened.slides)
        /\ output[1].toc = (IF pipeline = "cli" THEN populate_toc(opened.toc, categories)
                            ELSE app_populate_toc(opened.toc, categories))
        /\ output[1].slides = Retitle(opened.slides, matched_list)
        /\ output[1].order = ApplyOrder(<<>>, new_order)

\* C12: the output deck is written at most once, and only after the update
\* of the table of contents, the segmentation, the matching, the rewriting
\* of the titles and the rebuilding of the slide list have completed in that
\* order; a run that ends in a fatal error never writes it.
C12_OutputWrittenOnceAfterAllStages ==
    /\ [](WrittenAfterAllStages /\ (pc \in FatalEnds => output = None))
    /\ [][StagesInOrder]_vars

\* C12 witness: a finished run whose output differs from the deck opened in
\* its table of contents, its titles and its order
C12_Witness ==
    /\ pc = "done"
    /\ output # None
    /\ output[1].toc # opened.toc
    /\ output[1].slides # opened.slides
    /\ output[1].order # [i \in 1..Len(opened.slides) |-> i - 1]

RECURSIVE RowsBeforeMain(_)
RowsBeforeMain(rows) ==
    IF rows = <<>> THEN <<>>
    ELSE IF Len(Head(rows)) >= 2 /\ IsMainRow(Head(rows)) THEN <<>>
    ELSE <<Head(rows)>> \o RowsBeforeMain(Tail(rows))

\* after the last row of a table no category is open
NoCurrentAfterTable == ex_pc = "pdf" => ex_st.current = None

\* the step that reads a later table leaves the categories as they were
\* over the rows before the table's first main-item row
LeadingSubItemsIgnored ==
    (Len(ex_page') > Len(ex_page) /\ TablesRead >= 1) =>
        ProcessRows(ex_st, RowsBeforeMain(ex_page'[Len(ex_page')])) = ex_st

\* C14: the open category is flushed at the end of each table: after the
\* last row of a table no category is open, so a sub-item row of a later
\* table that comes before any main-item row of that table is ignored and
\* not attached to the last category of the table before.
C14_FlushAtEndOfTable ==
    /\ []NoCurrentAfterTable
    /\ [][LeadingSubItemsIgnored]_vars

\* the main-item rows of the document read, in document order
RECURSIVE MainRowsIn(_)
MainRowsIn(rows) ==
    IF rows = <<>> THEN <<>>
    ELSE (IF Len(Head(rows)) >= 2 /\ IsMainRow(Head(rows)) THEN <<Head(rows)>> ELSE <<>>)
            \o MainRowsIn(Tail(rows))

MainRowsRead == MainRowsIn(TableRows(Flatten(ex_pages)))

RowNo(row) == ToInt(LeadingDigits(CellText(row[1])))
RowName(row) == strip(FirstLine(CellText(row[2])))

PdfReturned == ex_pc = "done" /\ ex_kind = "pdf"

\* C15: for every No that main-item rows of the document carry, the returned
\* taxonomy has exactly one category, named as the first such row names it.
C15_FirstMainCategoryWins ==
    PdfReturned =>
        LET rows == MainRowsRead
        IN  \A k \in 1..Len(rows) :
                LET first == CHOOSE i \in 1..k :
                                 /\ RowNo(rows[i]) = RowNo(rows[k])
                                 /\ \A j \in 1..(i - 1) : RowNo(rows[j]) # RowNo(rows[k])
                    found == {c \in 1..Len(ex_result) : ex_result[c].No = RowNo(rows[k])}
                IN  /\ Cardinality(found) = 1
                    /\ \A c \in found : ex_result[c].MainCategory = RowName(rows[first])

\* C15 witness: the document read has two main-item rows of one No with
\* different names
C15_Witness ==
    /\ PdfReturned
    /\ \E i, j \in 1..Len(MainRowsRead) :
          /\ i < j
          /\ RowNo(MainRowsRead[i]) = RowNo(MainRowsRead[j])
          /\ RowName(MainRowsRead[i]) # RowName(MainRowsRead[j])

\* every category the extraction holds: flushed, open, returned
HeldCategories ==
    {ex_st.categories[i] : i \in 1..Len(ex_st.categories)}
        \cup {ex_st.current[i] : i \in 1..Len(ex_st.current)}
        \cup {ex_result[i] : i \in 1..Len(ex_result)}
        \cup (IF ex_again = None THEN {}
              ELSE {ex_again[1][i] : i \in 1..Len(ex_again[1])})

SubItemsWellFormed ==
    \A cat \in HeldCategories :
        /\ \A i \in 1..Len(cat.SubItems) :
              /\ cat.SubItems[i] # <<>>
              /\ Len(cat.SubItems[i]) <= SUB_ITEM_MAX
        /\ \A i, j \in 1..Len(cat.SubItems) :
              cat.SubItems[i] = cat.SubItems[j] => i = j

\* the texts the sub-item rows among rows give, in the order of the rows
RECURSIVE SubTexts(_)
SubTexts(rows) ==
    IF rows = <<>> THEN <<>>
    ELSE LET row == Head(rows)
         IN  (IF Len(row) >= 4 /\ AllDigits(CellText(row[3])) /\ CellText(row[4]) # <<>>
              THEN <<Slice(strip(FirstLine(CellText(row[4]))), SUB_ITEM_MAX)>>
              ELSE <<>>) \o SubTexts(Tail(rows))

\* items followed by the texts not yet in it, each once, in their order
RECURSIVE AppendNew(_, _)
AppendNew(items, texts) ==
    IF texts = <<>> THEN items
    ELSE IF Head(texts) = <<>> \/ InSeq(Head(texts), items)
         THEN AppendNew(items, Tail(texts))
         ELSE AppendNew(Append(items, Head(texts)), Tail(texts))

\* the rows of a table from its last main-item row on
RECURSIVE RowsFromLastMain(_)
RowsFromLastMain(rows) ==
    IF rows = <<>> THEN <<>>
    ELSE IF MainRowsIn(Tail(rows)) = <<>> THEN rows
    ELSE RowsFromLastMain(Tail(rows))

\* a step never changes a flushed category, and the step that reads a table
\* appends to the category that was open the new texts of the rows before
\* the first main-item row, and gives the category the table leaves open the
\* texts of the rows from its main-item row on, in the order of the rows
SubItemsInReadingOrder ==
    /\ Len(ex_st'.categories) >= Len(ex_st.categories)
    /\ SubSeq(ex_st'.categories, 1, Len(ex_st.categories)) = ex_st.categories
    /\ Len(ex_page') > Len(ex_page) =>
          LET table == ex_page'[Len(ex_page')]
              lead == RowsBeforeMain(table)
              n == Len(ex_st.categories)
          IN  /\ ex_st.current # None =>
                    LET cont == IF MainRowsIn(table) = <<>> THEN ex_st'.current[1]
                                ELSE ex_st'.categories[n + 1]
                    IN  /\ cont.No = ex_st.current[1].No
                        /\ cont.SubItems =
                              AppendNew(ex_st.current[1].SubItems, SubTexts(lead))
              /\ MainRowsIn(table) # <<>> =>
                    ex_st'.current[1].SubItems =
                        AppendNew(<<>>, SubTexts(RowsFromLastMain(table)))

\* C16: in every state of the extraction and in its result the SubItems of a
\* category hold no two equal strings, only non-empty strings of at most
\* SUB_ITEM_MAX characters, in the order in which their rows were first read.
C16_SubItemsUniqueBoundedOrdered ==
    /\ []SubItemsWellFormed
    /\ [][SubItemsInReadingOrder]_vars

\* the sub-item rows of the document read
SubRowsRead == SubTexts(TableRows(Flatten(ex_pages)))

\* C16 witness: a returned category holds the cut long line and then Scope,
\* from a document in which one of the two was read twice
C16_Witness ==
    /\ PdfReturned
    /\ Len(SubRowsRead) = 3
    /\ \E i \in 1..Len(ex_result) :
          ex_result[i].SubItems = <<Slice(LongLine, SUB_ITEM_MAX), Scope>>

\* the different texts the sub-item rows of the tables can give
PoolSubTexts ==
    UNION {{SubTexts(table)[i] : i \in 1..Len(SubTexts(table))} : table \in TablePool}

\* C17: the number of SubItems of a category is capped by a bound that does
\* not depend on the input: however many sub-item rows of different texts
\* the documents carry, a category holds fewer SubItems than that.
C17_SubItemsCapped ==
    \A cat \in HeldCategories : Len(cat.SubItems) < Cardinality(PoolSubTexts)

\* slide idx of the deck as it was opened has a title
Titled(idx) ==
    LET slide == opened.slides[idx + 1]
    IN  slide.ph /\ strip(slide.title) # <<>>

\* the title given to a group that starts with the untitled slide idx
SnippetOrUntitled(idx) ==
    LET slide == opened.slides[idx + 1]
        text == IF slide.ph /\ strip(slide.title) # <<>> THEN strip(slide.title)
                ELSE strip(slide.body)
    IN  IF text # <<>> THEN SubSeq(text, 1, IF Len(text) < 50 THEN Len(text) ELSE 50)
        ELSE UntitledPrefix \o IntToStr(idx) \o <<"]">>

\* C18: every titled content slide is the first slide of a group and no
\* group holds a titled slide elsewhere; a group with a made-up title (the
\* first text cut to 50 characters, or "[Untitled <index>]") can only be the
\* first group, starts at FIXED_SLIDES, and exists exactly when the slide at
\* FIXED_SLIDES has no title.
C18_TitledSlidesStartGroups ==
    Segmented =>
        /\ \A idx \in FIXED_SLIDES..(Len(opened.slides) - 1) :
              Titled(idx) => \E g \in 1..Len(groups) : groups[g].slides[1] = idx
        /\ \A g \in 1..Len(groups) :
              /\ \A i \in 2..Len(groups[g].slides) : ~Titled(groups[g].slides[i])
              /\ IF Titled(groups[g].slides[1])
                 THEN groups[g].title = strip(opened.slides[groups[g].slides[1] + 1].title)
                 ELSE /\ g = 1
                      /\ groups[g].slides[1] = FIXED_SLIDES
                      /\ groups[g].title = SnippetOrUntitled(FIXED_SLIDES)
        /\ (\E g \in 1..Len(groups) : ~Titled(groups[g].slides[1]))
              <=> ~Titled(FIXED_SLIDES)

\* C18 witness: a deck of an untitled slide with a long text and a titled
\* slide, segmented into a group titled by the cut text and a titled group
C18_Witness ==
    /\ pc = "segmented"
    /\ Len(groups) = 2
    /\ Len(groups[1].title) = TITLE_SNIPPET_MAX
    /\ ~Titled(FIXED_SLIDES) /\ Titled(FIXED_SLIDES + 1)

\* the text of shape i of the table-of-contents slide as it was opened
OpenedText(i) == ShapeText(opened.toc[i])

OnlyDigitsAndSpace(text) ==
    \A k \in 1..Len(text) : IsDigit(text[k]) \/ text[k] \in Whitespace

\* the text regions whose text is not of digits and white space only
EligibleRegions ==
    {i \in 1..Len(opened.toc) :
        opened.toc[i].has_text_frame /\ ~OnlyDigitsAndSpace(OpenedText(i))}

\* the shapes the update changed
RewrittenRegions == {i \in 1..Len(opened.toc) : toc[i] # opened.toc[i]}

TocUpdated == pc = "toc_done"

\* C19: the update of the table of contents never overwrites a text region
\* whose text is only digits and white space: it rewrites the first region
\* of greatest area among the regions whose text is not, and when there is
\* none it leaves the slide as it was.
C19_TocKeepsDigitRegions ==
    TocUpdated =>
        /\ \A i \in RewrittenRegions : i \in EligibleRegions
        /\ IF EligibleRegions = {} THEN toc = opened.toc
           ELSE RewrittenRegions =
                    {CHOOSE i \in EligibleRegions :
                        \A j \in EligibleRegions :
                            \/ opened.toc[j].area < opened.toc[i].area
                            \/ (opened.toc[j].area = opened.toc[i].area /\ i <= j)}

\* the line of a sub-item: indented, after a bullet, cut to 40 characters
SubItemLine(text) ==
    <<" ", " ", "*", " ">> \o SubSeq(text, 1, IF Len(text) < 40 THEN Len(text) ELSE 40)

\* the lines of one category: its title, then its first three sub-items
CategoryLines(cat) ==
    LET subs == IF "SubItems" \in DOMAIN cat THEN cat.SubItems ELSE <<>>
        shown == IF Len(subs) < 3 THEN Len(subs) ELSE 3
    IN  <<IntToStr(cat.No) \o <<".", " ">> \o CatName(cat)>>
            \o [i \in 1..shown |-> SubItemLine(subs[i])]

ShownCount(cats) ==
    LET RECURSIVE Sum(_)
        Sum(k) == IF k = 0 THEN 0
                  ELSE Sum(k - 1) + 1 +
                       (LET n == Len(CatSubItems(cats[k])) IN IF n < 3 THEN n ELSE 3)
    IN  Sum(Len(cats))

\* C20 (amended): after a successful update by main.py the region chosen holds none
\* of its former text and, in taxonomy order, for each category the line
\* "<No>. <MainCategory>" and then its first min(3, |SubItems|) sub-items, in
\* their order; the paragraphs are 1 + min(3, |SubItems|) for each category.
C20_TocContent ==
    (TocUpdated /\ pipeline = "cli") =>
        \A i \in RewrittenRegions :
            /\ toc[i].paragraphs = Flatten([k \in 1..Len(categories) |->
                                               CategoryLines(categories[k])])
            /\ Len(toc[i].paragraphs) = ShownCount(categories)
            /\ \A k \in 1..Len(toc[i].paragraphs) :
                  \A m \in 1..Len(opened.toc[i].paragraphs) :
                      toc[i].paragraphs[k] # opened.toc[i].paragraphs[m]

\* C20 as stated: the lines after a category's line hold its first
\* min(3, |SubItems|) sub-items, each of them whole after the indent
C20_SubItemLinesHoldSubItems ==
    (TocUpdated /\ pipeline = "cli") =>
        \A i \in RewrittenRegions :
            /\ Len(toc[i].paragraphs) = ShownCount(categories)
            /\ toc[i].paragraphs =
                  Flatten([k \in 1..Len(categories) |->
                     LET subs == CatSubItems(categories[k])
                         shown == IF Len(subs) < 3 THEN Len(subs) ELSE 3
                     IN  <<IntToStr(categories[k].No) \o <<".", " ">>
                             \o CatName(categories[k])>>
                           \o [m \in 1..shown |-> <<" ", " ", "*", " ">> \o subs[m]]])

\* C20 witness: main.py rewrote a region for a taxonomy with a category of
\* more than three sub-items and a sub-item of more than 40 characters
C20_Witness ==
    /\ TocUpdated /\ pipeline = "cli"
    /\ RewrittenRegions # {}
    /\ \E k \in 1..Len(categories) :
          /\ Len(CatSubItems(categories[k])) > 3
          /\ \E m \in 1..3 : Len(CatSubItems(categories[k])[m]) > 40

\* the answer is an object that maps every category of the taxonomy, and
\* nothing else, to -1
EveryCategoryUnmatched ==
    /\ Answered
    /\ categories # <<>>
    /\ \A i \in 1..Len(categories) : AnswerFor(categories[i].No) = {-1}
    /\ \A i \in 1..Len(response.items) : response.items[i][2] = -1

\* C21: an answer that maps every category to -1 is handled like any answer
\* without a valid entry: the run is not stopped at the matching step, and
\* when it ends the output deck has the original slide order, matchedCount
\* 0 and unusedCount the number of groups.
C21_AllUnmatchedCompletes ==
    EveryCategoryUnmatched =>
        /\ pc \in {"matched", "ordered", "applied", "done"}
        /\ pc = "done" =>
              /\ output # None
              /\ output[1].order = [i \in 1..Len(opened.slides) |-> i - 1]
              /\ output[1].matchedCount = 0
              /\ output[1].unusedCount = Len(groups)

\* the pairs <<No, text>> of the sub-item rows among rows that are read
\* while a category is open, with the No of that category; open is the No of
\* the category open before the rows, if any
RECURSIVE ReadWhileOpen(_, _)
ReadWhileOpen(rows, open) ==
    IF rows = <<>> THEN {}
    ELSE LET row == Head(rows)
             texts == SubTexts(<<row>>)
         IN  IF Len(row) >= 2 /\ IsMainRow(row)
             THEN ReadWhileOpen(Tail(rows), Some(RowNo(row)))
             ELSE (IF open = None THEN {}
                   ELSE {<<open[1], texts[i]>> :
                            i \in {j \in 1..Len(texts) : texts[j] # <<>>}})
                      \cup ReadWhileOpen(Tail(rows), open)

\* C23: no accepted sub-item is lost: for every No of the returned taxonomy
\* the returned category's SubItems hold every sub-item text (cut to
\* SUB_ITEM_MAX characters) read from a sub-item row while the open category
\* had that No, also when several main-item rows carry that No.
C23_NoSubItemLost ==
    PdfReturned =>
        \A p \in 1..Len(ex_pages) :
            \A read \in ReadWhileOpen(TableRows(ex_pages[p]), None) :
                \A c \in 1..Len(ex_result) :
                    ex_result[c].No = read[1] => InSeq(read[2], ex_result[c].SubItems)

\* C24: after every reorder each group is counted once in the summary:
\* matchedCount + unusedCount is the number of groups of the segmentation,
\* and matchedCount is at most that number.
C24_GroupsCountedOnce ==
    /\ Reordered =>
          /\ Len(matched_list) + Len(unused_groups) = Len(groups)
          /\ Len(matched_list) <= Len(groups)
    /\ (pc = "done" /\ output # None) =>
          /\ output[1].matchedCount + output[1].unusedCount = Len(groups)
          /\ output[1].matchedCount <= Len(groups)

\* the taxonomy is one both pipelines read: app.py reads cat['Category']
BothCanRead == \A i \in 1..Len(categories) : "Category" \in DOMAIN categories[i]

\* C25: main.py and app.py are equivalent on the reorder step: for the
\* categories, the deck and the oracle answer of a run, the other pipeline
\* goes on to an output deck exactly when this one does, also when the
\* validated mapping is empty, and then with the same new slide order and
\* the same matched and unused counts.
C25_PipelinesEquivalent ==
    (match_calls = 1 /\ BothCanRead) =>
        LET other == IF pipeline = "cli" THEN "web" ELSE "cli"
            map == create_matching_with_ai(response)
            res == Resolve(categories, map, groups)
            other_pc == MatchOutcome(other, response.ok, map, res.raised)
            sorted == SortMatched(res.matched_list)
            unused == UnusedGroups(groups, res.used_groups)
        IN  /\ (pc \in {"matched", "ordered", "applied", "done"}) <=> (other_pc = "matched")
            /\ (pc = "done" /\ other_pc = "matched") =>
                  /\ output[1].order = ApplyOrder(<<>>, NewOrder(sorted, unused))
                  /\ output[1].matchedCount = Len(sorted)
                  /\ output[1].unusedCount = Len(unused)

\* the first slides of the groups of the matched list
MatchedFirstSlides ==
    {matched_list[i].group.slides[1] : i \in 1..Len(matched_list)}

\* the number of slides new_order holds before those of entry i of the
\* matched list
OffsetOfEntry(i) ==
    LET RECURSIVE Before(_)
        Before(j) == IF j = 0 THEN FIXED_SLIDES
                     ELSE Before(j - 1) + Len(matched_list[j].group.slides)
    IN  Before(i - 1)

\* C22: the reorder changes the title text of first slides of matched
\* groups only: the anchors, the other slides of matched groups and the
\* slides of unused groups are as opened, and nothing but a title changes;
\* a first slide without a title placeholder is left as opened and its group
\* is still placed in the new order at the position of its category.
C22_OnlyFirstSlidesRetitled ==
    Reordered =>
        /\ Len(slides) = Len(opened.slides)
        /\ \A idx \in SlideIndices :
              /\ slides[idx + 1].ph = opened.slides[idx + 1].ph
              /\ slides[idx + 1].body = opened.slides[idx + 1].body
              /\ (idx \notin MatchedFirstSlides \/ ~opened.slides[idx + 1].ph)
                    => slides[idx + 1] = opened.slides[idx + 1]
        /\ \A i \in 1..(Len(matched_list) - 1) :
              matched_list[i].pdf_no <= matched_list[i + 1].pdf_no
        /\ \A i \in 1..Len(matched_list) :
              LET moved == matched_list[i].group.slides
              IN  ~opened.slides[moved[1] + 1].ph =>
                      SubSeq(new_order, OffsetOfEntry(i) + 1,
                             OffsetOfEntry(i) + Len(moved)) = moved

\* C22 witness: a finished run with two matched groups, the first slide of
\* one without a title placeholder and left as opened, the first slide of
\* the other retitled
C22_Witness ==
    /\ pc = "done"
    /\ \E i, j \in 1..Len(matched_list) :
          LET a == matched_list[i].group.slides[1]
              b == matched_list[j].group.slides[1]
          IN  /\ ~opened.slides[a + 1].ph
              /\ slides[a + 1] = opened.slides[a + 1]
              /\ opened.slides[b + 1].ph
              /\ slides[b + 1].title # opened.slides[b + 1].title

====
